---- MODULE Spec2Model ----
(***************************************************************************)
(* Study-leave document generator: the DocumentBuild form component (two   *)
(* variants of it live in the repository, the plain one and the one that   *)
(* caches the personal fields in cookies), its zod schema, its submit      *)
(* handler and the build request it sends to the render service.           *)
(* The render service's template, document.typ, is modelled as the         *)
(* function compile from the posted record to the page or to the first     *)
(* failure.  Spec is the component, ValidateSpec the schema applied to a   *)
(* record, AssembleSpec the template compiled on a posted record.          *)
(*                                                                         *)
(* Strings.  A string is a sequence of tokens.  The token " " is one       *)
(* whitespace character; every other token is a run of one or more         *)
(* non-whitespace characters.  So a string is empty iff its sequence is    *)
(* empty, `s.length >= 1` iff Len(s) >= 1, and trim() removes the leading  *)
(* and trailing " " tokens.  A date is written one character per token,    *)
(* so that its shape can be tested and its parts read.                     *)
(*                                                                         *)
(* Rendering.  React re-renders the component after a handler's state      *)
(* updates and before the next event is handled, so an event handler reads *)
(* the state as it was when the event arrived: the closure values of       *)
(* `isGenerating` and `hasSubmittedOnce`, and the resolver that            *)
(* useForm received at that render.  State updates made inside a handler   *)
(* (setHasSubmittedOnce, setIsGenerating) are visible to the next event,   *)
(* never to the rest of the same handler.  In an action the unprimed       *)
(* variables are therefore exactly what the handler's closure holds.       *)
(***************************************************************************)
EXTENDS Integers, Sequences, FiniteSets, TLC

VARIABLES
    variant,          \* which DocumentBuild is mounted: "plain" or "cookie"
    values,           \* the form's field values (react-hook-form _formValues)
    issues,           \* what the resolver reported in the last step ({} if it did not run)
    isSubmitted,      \* formState.isSubmitted
    hasSubmittedOnce, \* useState(false)
    isGenerating,     \* useState(false)
    isLoading,        \* useState(false): catalog load outstanding (form not rendered)
    activityTypes,    \* loaded activity catalog: set of activity values
    languages,        \* loaded language catalog: set of language codes
    cookies,          \* the browser's saved-answer store (document.cookie)
    requests,         \* POST /document/build requests in flight (DocumentInputs)
    document,         \* what the template made of the posted record
    failure,          \* the last failed build: what the service answered, what onSubmit caught
    lastEvent         \* label of the most recent step

vars == <<variant, values, issues, isSubmitted, hasSubmittedOnce, isGenerating,
          isLoading, activityTypes, languages, cookies, requests, document,
          failure, lastEvent>>

-----------------------------------------------------------------------------
(* Bounds *)

\* Cap on the build requests held in flight by the model.  The code itself has
\* no such cap; the cap is above what the in-flight guard allows.
MaxInFlight == 2

-----------------------------------------------------------------------------
(* Strings *)

Empty == <<>>
Blank == <<" ">>

IsSpace(tok) == tok = " "

RECURSIVE TrimStart(_)
TrimStart(s) ==
    IF s = <<>> THEN <<>>
    ELSE IF IsSpace(Head(s)) THEN TrimStart(Tail(s)) ELSE s

RECURSIVE TrimEnd(_)
TrimEnd(s) ==
    IF s = <<>> THEN <<>>
    ELSE IF IsSpace(s[Len(s)]) THEN TrimEnd(SubSeq(s, 1, Len(s) - 1)) ELSE s

\* String.prototype.trim
Trim(s) == TrimEnd(TrimStart(s))

\* a || b on strings: the empty string is falsy
OrElse(a, b) == IF a = <<>> THEN b ELSE a

-----------------------------------------------------------------------------
(* Field names and the values the form can hold *)

Variants == {"plain", "cookie"}

Fields == {"activity_type", "language", "name", "id", "degree", "course",
           "professor", "date", "city", "image_path"}

Lectures           == <<"lectures">>
OralExam           == <<"oral-exam">>
WrittenExam        == <<"written-exam">>
OfficeHours        == <<"office-hours">>
OfficeHoursMeeting == <<"office-hours-meeting">>

NoImagePath == <<>>

DefaultImagePath == <<"imgs/unitn.jpg">>

\* new Date(Date.now() + 24h).toISOString().split('T')[0]
Tomorrow == <<"2", "0", "2", "4", "-", "0", "1", "-", "0", "2">>

defaultValuesCourseKept ==
    [activity_type |-> Empty, language |-> Empty, name |-> Empty, id |-> Empty,
     degree |-> Empty, course |-> <<"Algebra">>, professor |-> Empty,
     date |-> Tomorrow, city |-> Empty, image_path |-> DefaultImagePath]

defaultValues ==
    [activity_type |-> Empty, language |-> Empty, name |-> Empty, id |-> Empty,
     degree |-> Empty, course |-> Empty, professor |-> Empty, date |-> Tomorrow,
     city |-> Empty, image_path |-> DefaultImagePath]

-----------------------------------------------------------------------------
(* createFormSchema: the zod schema, as the set of issues it raises *)

Issue(p, m) == [path |-> p, message |-> m]

Paths(found) == {i.path : i \in found}

\* z.string().min(1, {message})
MinOne(s) == Len(s) >= 1

baseSchema(data) ==
    {i \in { Issue("activity_type", "Please select an activity type."),
             Issue("language", "Please select a language."),
             Issue("name", "Student name is required."),
             Issue("id", "Student ID is required."),
             Issue("degree", "Degree program is required."),
             Issue("date", "Date is required."),
             Issue("city", "City name is required.") } :
        ~MinOne(data[i.path])}

\* !data.course || data.course.trim() === ""
IsMissingNoTrim(s) == s = <<>>

IsMissing(s) == s = <<>> \/ Trim(s) = <<>>

\* the activity value the professor rule is keyed to
OfficeHoursKey(v) == IF v = "cookie" THEN OfficeHoursMeeting ELSE OfficeHours

superRefineCourseUnlessOfficeHours(v, data) ==
    (IF data.activity_type # OfficeHoursKey(v) /\ IsMissing(data.course)
        THEN {Issue("course", "Course is required for lectures.")} ELSE {})
    \cup
    (IF data.activity_type = OfficeHoursKey(v) /\ IsMissing(data.professor)
        THEN {Issue("professor", "Professor is required for office hours.")} ELSE {})

superRefine(v, data) ==
    (IF data.activity_type = Lectures /\ IsMissing(data.course)
        THEN {Issue("course", "Course is required for lectures.")} ELSE {})
    \cup
    (IF data.activity_type \in {OralExam, WrittenExam} /\ IsMissing(data.course)
        THEN {Issue("course", "Course is required for exams.")} ELSE {})
    \cup
    (IF data.activity_type = OfficeHoursKey(v) /\ IsMissing(data.professor)
        THEN {Issue("professor", "Professor is required for office hours.")} ELSE {})

createFormSchemaAlwaysStrict(v, hasSubmitted, data) ==
    baseSchema(data) \cup superRefine(v, data)

\* The issues createFormSchema(hasSubmitted) raises on data.  A min(1) failure
\* leaves the object parse "dirty", not aborted, so the refinement still runs.
createFormSchema(v, hasSubmitted, data) ==
    IF ~hasSubmitted THEN baseSchema(data)
    ELSE baseSchema(data) \cup superRefine(v, data)

-----------------------------------------------------------------------------
(* The saved-answer store (cookie variant) *)

SavedKeys == {"name", "id", "degree", "city", "language"}

\* encodeURIComponent / decodeURIComponent: a whitespace character is escaped,
\* the characters of the other tokens used here are unreserved
encodeURIComponent(s) == [i \in 1..Len(s) |-> IF s[i] = " " THEN "%20" ELSE s[i]]

decodeURIComponent(s) == [i \in 1..Len(s) |-> IF s[i] = "%20" THEN " " ELSE s[i]]

\* the cookies document.cookie can hold: the five student_* cookies the
\* component writes, and cookies of other names it never writes
StoreKeys == SavedKeys \cup {"activity_type", "course", "professor"}

\* document.cookie with no cookie set
NoCookies == [k \in StoreKeys |-> <<>>]

\* getCookie(name) || ''
getCookie(store, k) == decodeURIComponent(store[k])

loadSavedUserData(store) == [k \in SavedKeys |-> getCookie(store, k)]

\* five setCookie calls: the other cookies of the store stay as they are
saveUserDataToCookies(store, data) ==
    [k \in DOMAIN store |->
        IF k \in SavedKeys THEN encodeURIComponent(data[k]) ELSE store[k]]

-----------------------------------------------------------------------------
(* What the environment can supply *)

\* GET /document/activity-types: the activities of the README, the office-hours
\* entry under the value the template accepts and under the value the cookie
\* variant's schema is keyed to
ActivityCatalogs ==
    { {Lectures, OralExam, WrittenExam, OfficeHours, OfficeHoursMeeting} }

\* GET /document/supported-languages
LanguageCatalog == {<<"it">>}

\* what a user types into a text input
NameInputs      == {Empty, <<"Elena">>}
IdInputs        == {Empty, <<"12345678">>}
DegreeInputs    == {Empty, <<"Informatica">>}
CityInputs      == {Empty, <<"Trento">>}
CourseInputs    == {Empty, Blank, <<"Algebra">>}
ProfessorInputs == {Empty, <<"Bianchi">>}
DateInputs      == {Tomorrow}

\* cookies of other names, holding an activity, a course and a professor
ForeignCookies ==
    [NoCookies EXCEPT !.activity_type = Lectures, !.course = <<"Algebra">>,
                      !.professor = <<"Bianchi">>]

\* a store left by an earlier session: nothing, the five saved answers, the
\* five saved answers beside the foreign cookies
SavedStores ==
    { NoCookies,
      saveUserDataToCookies(NoCookies,
                            [name |-> <<"Elena">>, id |-> <<"12345678">>,
                             degree |-> <<"Informatica">>, city |-> <<"Trento">>,
                             language |-> <<"it">>]),
      saveUserDataToCookies(ForeignCookies,
                            [name |-> <<"Elena">>, id |-> <<"12345678">>,
                             degree |-> <<"Informatica">>, city |-> <<"Trento">>,
                             language |-> <<"it">>]) }

\* the values a field's widget can produce in the current state
InputsOf(f) ==
    CASE f = "activity_type" -> activityTypes
      [] f = "language"      -> languages
      [] f = "name"          -> NameInputs
      [] f = "id"            -> IdInputs
      [] f = "degree"        -> DegreeInputs
      [] f = "city"          -> CityInputs
      [] f = "course"        -> CourseInputs
      [] f = "professor"     -> ProfessorInputs
      [] f = "date"          -> DateInputs
      [] OTHER               -> {}

-----------------------------------------------------------------------------
(* The component *)

\* state after mount, with the catalog load started by the mount effect
\* nothing compiled yet; no build has failed yet
NoDocument == [status |-> "none"]

NoFailure == [status |-> "none"]

Init ==
    /\ variant \in Variants
    /\ values = defaultValues
    /\ issues = {}
    /\ isSubmitted = FALSE
    /\ hasSubmittedOnce = FALSE
    /\ isGenerating = FALSE
    /\ isLoading = FALSE
    /\ activityTypes = {}
    /\ languages = {}
    /\ cookies \in (IF variant = "cookie" THEN SavedStores ELSE {NoCookies})
    /\ requests = <<>>
    /\ document = NoDocument
    /\ failure = NoFailure
    /\ lastEvent = "mount"

\* the form.reset of the cookie variant's loadData
resetFromSaved(saved) ==
    [defaultValues EXCEPT !.language = saved.language, !.name = saved.name,
                          !.id = saved.id, !.degree = saved.degree,
                          !.city = saved.city]

HasSaved(saved) == \E k \in SavedKeys : saved[k] # <<>>

\* isLoading after loadData settled: finally { setIsLoading(false) }
LoadingAfterLoadNoFinally(ok) == ~ok

LoadingAfterLoad(ok) == FALSE

\* The first render shows the form (isLoading is false) and leaves the
\* effect that calls loadData pending.  React runs a pending effect before
\* it renders again, so the effect runs either with no event before it or
\* after the handler of the one event that arrives first.
EffectPending == lastEvent = "mount"

\* isLoading once an event's handler has run and the component has rendered
\* again: a pending loadData has then run setIsLoading(true)
LoadingAfterEvent == IF EffectPending THEN TRUE ELSE isLoading

\* the mount effect runs with no event before it: setIsLoading(true), both
\* catalog fetches start
LoadDataStart ==
    /\ EffectPending
    /\ isLoading' = TRUE
    /\ issues' = {}
    /\ lastEvent' = "load-started"
    /\ UNCHANGED <<variant, values, isSubmitted, hasSubmittedOnce, isGenerating,
                   activityTypes, languages, cookies, requests, document, failure>>

PromiseAnyFulfilled(okActivities, okLanguages) == okActivities \/ okLanguages

\* Promise.all([...]) fulfils when both fetches do, and rejects otherwise
PromiseAll(okActivities, okLanguages) == okActivities /\ okLanguages

\* loadData: Promise.all of the two catalog fetches settles
LoadDataDone ==
    /\ isLoading
    /\ \E okActivities \in BOOLEAN, okLanguages \in BOOLEAN, catalog \in ActivityCatalogs :
         IF PromiseAll(okActivities, okLanguages)
         THEN /\ activityTypes' = catalog
              /\ languages' = LanguageCatalog
              /\ IF variant = "cookie" /\ HasSaved(loadSavedUserData(cookies))
                 THEN /\ values' = resetFromSaved(loadSavedUserData(cookies))
                      /\ isSubmitted' = FALSE
                 ELSE UNCHANGED <<values, isSubmitted>>
              /\ isLoading' = LoadingAfterLoad(TRUE)
              /\ lastEvent' = IF okActivities /\ okLanguages
                              THEN "load-ok" ELSE "load-failed"
         ELSE /\ UNCHANGED <<activityTypes, languages, values, isSubmitted>>
              /\ isLoading' = LoadingAfterLoad(FALSE)
              /\ lastEvent' = "load-failed"
    /\ issues' = {}
    /\ UNCHANGED <<document, failure>>
    /\ UNCHANGED <<variant, hasSubmittedOnce, isGenerating, cookies, requests>>

resolverLenientOnceSubmitted(data) ==
    createFormSchema(variant, hasSubmittedOnce /\ ~isSubmitted, data)

\* the resolver useForm holds: zodResolver(createFormSchema(hasSubmittedOnce))
\* of the last render
resolver(data) == createFormSchema(variant, hasSubmittedOnce, data)

reValidateMode == IF hasSubmittedOnce THEN "onChange" ELSE "onSubmit"

\* the inputs the form renders: course under lectures and the exams,
\* professor under the variant's office-hours value, the others always
Shown(f) ==
    CASE f = "course"    -> values.activity_type \in {Lectures, OralExam, WrittenExam}
      [] f = "professor" -> values.activity_type = OfficeHoursKey(variant)
      [] OTHER           -> TRUE

\* a change event on one field that is shown: the value is stored (the
\* values of the other fields, shown or hidden, stay) and, once the form has
\* been submitted and re-validation is on change, the resolver runs on the
\* new values
Edit ==
    /\ ~isLoading
    /\ \E f \in Fields : \E v \in InputsOf(f) :
         /\ Shown(f)
         /\ v # values[f]
         /\ values' = [values EXCEPT ![f] = v]
         /\ issues' = IF isSubmitted /\ reValidateMode = "onChange"
                      THEN resolver(values') ELSE {}
    /\ lastEvent' = "edit"
    /\ UNCHANGED <<document, failure>>
    /\ isLoading' = LoadingAfterEvent
    /\ UNCHANGED <<variant, isSubmitted, hasSubmittedOnce, isGenerating,
                   activityTypes, languages, cookies, requests>>

\* the record onSubmit posts
documentInputsShownOnly(data) ==
    [language |-> data.language, name |-> data.name, id |-> data.id,
     degree |-> data.degree,
     course |-> IF Shown("course") THEN OrElse(data.course, Empty) ELSE Empty,
     professor |-> IF Shown("professor") THEN OrElse(data.professor, Empty) ELSE Empty,
     date |-> data.date, city |-> data.city,
     image_path |-> OrElse(data.image_path, DefaultImagePath),
     activity_type |-> data.activity_type]

documentInputs(data) ==
    [language |-> data.language, name |-> data.name, id |-> data.id,
     degree |-> data.degree, course |-> OrElse(data.course, Empty),
     professor |-> OrElse(data.professor, Empty), date |-> data.date,
     city |-> data.city, image_path |-> OrElse(data.image_path, DefaultImagePath),
     activity_type |-> data.activity_type]

\* handleSubmit calls onSubmit only when the resolver reported nothing
ReachesOnSubmit(result) == result = {}

\* if (isGenerating) return
SubmitBlockedNever(generating) == FALSE

SubmitBlocked(generating) == generating

\* if (!hasSubmittedOnce) setHasSubmittedOnce(true): the flag after onSubmit
\* passed its guard
MarkSubmittedToggle(submittedOnce) == ~submittedOnce

MarkSubmitted(submittedOnce) == IF ~submittedOnce THEN TRUE ELSE submittedOnce

\* A submit event: form.handleSubmit(onSubmit).  handleSubmit runs the resolver
\* and calls onSubmit only on a record without issues.  onSubmit returns at
\* once while a build is outstanding; on the first pass it sets
\* hasSubmittedOnce and calls form.trigger(), which runs the resolver that
\* useForm holds (the re-render that would install the next one has not
\* happened inside the handler); then it sets isGenerating, saves the cookies
\* (cookie variant) and posts the record.
Submit ==
    /\ ~isLoading
    /\ LET result  == resolver(values)
           data    == values
           trigger == resolver(values)
       IN IF ~ReachesOnSubmit(result)
          THEN /\ issues' = result
               /\ isSubmitted' = TRUE
               /\ lastEvent' = "submit-invalid"
               /\ UNCHANGED <<hasSubmittedOnce, isGenerating, cookies, requests>>
          ELSE IF SubmitBlocked(isGenerating)
          THEN /\ issues' = {}
               /\ isSubmitted' = TRUE
               /\ lastEvent' = "submit-ignored"
               /\ UNCHANGED <<hasSubmittedOnce, isGenerating, cookies, requests>>
          ELSE IF ~hasSubmittedOnce /\ trigger # {}
          THEN /\ hasSubmittedOnce' = MarkSubmitted(hasSubmittedOnce)
               /\ issues' = trigger
               /\ isSubmitted' = TRUE
               /\ lastEvent' = "submit-stopped"
               /\ UNCHANGED <<isGenerating, cookies, requests>>
          ELSE /\ Len(requests) < MaxInFlight
               /\ hasSubmittedOnce' = MarkSubmitted(hasSubmittedOnce)
               /\ isGenerating' = TRUE
               /\ cookies' = IF variant = "cookie"
                             THEN saveUserDataToCookies(cookies, data) ELSE cookies
               /\ requests' = Append(requests, documentInputs(data))
               /\ issues' = {}
               /\ UNCHANGED isSubmitted
               /\ lastEvent' = "submit-sent"
    /\ UNCHANGED <<document, failure>>
    /\ isLoading' = LoadingAfterEvent
    /\ UNCHANGED <<variant, values, activityTypes, languages>>

\* isGenerating after the build request settled: finally { setIsGenerating(false) }
GeneratingAfterBuildNoFinally(ok) == ~ok

GeneratingAfterBuild(ok) == FALSE

Remove(seq, i) == SubSeq(seq, 1, i - 1) \o SubSeq(seq, i + 1, Len(seq))

Undefined == "undefined"

\* await response.json().catch(() => ({})) on a body that is not JSON
NoBody == [error |-> Undefined, message |-> Undefined]

\* what fetch gives buildDocument: the PDF, a non-ok response with the
\* service's ApiError as JSON body, a non-ok response whose body is not
\* JSON, or a rejection because the service cannot be reached
Responses ==
    { [fetch |-> "resolved", ok |-> TRUE, status |-> 200, body |-> NoBody],
      [fetch |-> "resolved", ok |-> FALSE, status |-> 422,
       body |-> [error |-> "invalid_input", message |-> "Date must be in the format YYYY-MM-DD."]],
      [fetch |-> "resolved", ok |-> FALSE, status |-> 500, body |-> NoBody],
      [fetch |-> "rejected", ok |-> FALSE, status |-> 0, body |-> NoBody] }

\* `HTTP error! status: ${response.status}`
HttpError(status) ==
    CASE status = 422 -> "HTTP error! status: 422"
      [] status = 500 -> "HTTP error! status: 500"

\* a JavaScript Error: it has a message and no error code
Error(message) == [error |-> Undefined, message |-> message]

\* what buildDocument throws on a response that is not ok:
\* new Error(errorData.message || `HTTP error! status: ...`), or fetch's own
\* TypeError; logged and thrown again
buildDocumentThrows(response) ==
    IF response.fetch = "rejected" THEN Error("Failed to fetch")
    ELSE IF response.body.message \notin {Undefined, ""}
         THEN Error(response.body.message)
         ELSE Error(HttpError(response.status))

\* the catch block of onSubmit: console.error(...), and nothing put on screen
onSubmitCatch(response, error) ==
    [status |-> "failed", response |-> response, caught |-> error,
     logged |-> TRUE, shown |-> Undefined]

\* apiService.buildDocument settles, with the PDF or with an error; the rest
\* of onSubmit runs and handleSubmit marks the form submitted
BuildDone ==
    /\ \E i \in 1..Len(requests) : \E response \in Responses :
         /\ requests' = Remove(requests, i)
         /\ isGenerating' = GeneratingAfterBuild(response.ok)
         /\ failure' = IF response.ok THEN failure
                        ELSE onSubmitCatch(response, buildDocumentThrows(response))
         /\ lastEvent' = IF response.ok THEN "build-ok" ELSE "build-failed"
    /\ isSubmitted' = TRUE
    /\ issues' = {}
    /\ UNCHANGED document
    /\ UNCHANGED <<variant, values, hasSubmittedOnce, isLoading,
                   activityTypes, languages, cookies>>

Next == LoadDataStart \/ LoadDataDone \/ Edit \/ Submit \/ BuildDone

Spec == Init /\ [][Next]_vars

-----------------------------------------------------------------------------
(* The template document.typ: the assertions on its inputs *)

AsciiDigits == {"0", "1", "2", "3", "4", "5", "6", "7", "8", "9"}

\* the decimal digits outside ASCII, of which the Arabic-Indic ones stand
\* here, each token named by its code point
ArabicIndicDigits ==
    {"U+0660", "U+0661", "U+0662", "U+0663", "U+0664",
     "U+0665", "U+0666", "U+0667", "U+0668", "U+0669"}

\* \d of regex(): any decimal digit, ASCII or not
Digits == AsciiDigits \cup ArabicIndicDigits

\* date_str.match(regex("^\d{4}-\d{2}-\d{2}$")) finds a match (a dictionary);
\* otherwise it gives none
MatchesDateShape(s) ==
    /\ Len(s) = 10
    /\ \A i \in {1, 2, 3, 4, 6, 7, 9, 10} : s[i] \in Digits
    /\ s[5] = "-"
    /\ s[8] = "-"

activities == {Lectures, OralExam, WrittenExam, OfficeHours}

\* the sum in the last assertion: one for each tag the activity equals
activityCount(activity) ==
    (IF activity = Lectures THEN 1 ELSE 0)
    + (IF activity = OralExam THEN 1 ELSE 0)
    + (IF activity = WrittenExam THEN 1 ELSE 0)
    + (IF activity = OfficeHours THEN 1 ELSE 0)

\* a condition that has a value: the assertion holds or fails
Outcome(condition) == IF condition THEN "holds" ELSE "fails"

\* date_str.match(...).len() > 0: the dictionary of a match has four keys,
\* so the condition is true on a match; without a match it is none.len(),
\* which stops the compilation with an error of its own
DateOutcome(date_str) == IF MatchesDateShape(date_str) THEN "holds" ELSE "error"

\* the assertions on the inputs, in the order of the template; the message
\* is the assertion's, or the error of evaluating its condition
assertions(inputs) ==
    << [outcome |-> Outcome(Len(inputs.name) > 0), message |-> "Name must be provided."],
       [outcome |-> Outcome(Len(inputs.id) > 0), message |-> "ID must be provided."],
       [outcome |-> Outcome(Len(inputs.degree) > 0),
        message |-> "Degree must be provided."],
       [outcome |-> DateOutcome(inputs.date),
        message |-> IF DateOutcome(inputs.date) = "error"
                    THEN "type none has no method len"
                    ELSE "Date must be in the format YYYY-MM-DD."],
       [outcome |-> Outcome(Len(inputs.city) > 0), message |-> "City must be provided."],
       [outcome |-> Outcome(Len(inputs.image_path) > 0),
        message |-> "Image path must be provided."],
       [outcome |-> Outcome(Len(inputs.language) > 0),
        message |-> "Language must be provided."],
       [outcome |-> Outcome(inputs.activity_type \in activities),
        message |-> "Activity must be one of: lectures, oral-exam, written-exam, office-hours"],
       [outcome |-> Outcome(activityCount(inputs.activity_type) <= 1),
        message |-> "At most one of lectures, oral-exam, written-exam, office-hours can be true."] >>

\* the messages of the assertions whose condition is false on the inputs
failedAssertions(inputs) ==
    {assertions(inputs)[i].message :
        i \in {k \in 1..Len(assertions(inputs)) : assertions(inputs)[k].outcome = "fails"}}

\* the index of the first assertion that stops the compilation, because it
\* fails or because its condition cannot be evaluated; 0 if all hold
firstFailed(inputs) ==
    LET stopping == {k \in 1..Len(assertions(inputs)) :
                        assertions(inputs)[k].outcome # "holds"}
    IN  IF stopping = {} THEN 0
        ELSE CHOOSE k \in stopping : \A j \in stopping : k <= j

-----------------------------------------------------------------------------
(* The template document.typ: the date *)

DigitValue(c) ==
    CHOOSE n \in 0..9 : <<"0", "1", "2", "3", "4", "5", "6", "7", "8", "9">>[n + 1] = c

DigitOf(n) == <<"0", "1", "2", "3", "4", "5", "6", "7", "8", "9">>[n + 1]

RECURSIVE Number(_)
Number(s) ==
    IF s = <<>> THEN 0
    ELSE 10 * Number(SubSeq(s, 1, Len(s) - 1)) + DigitValue(s[Len(s)])

IsLeapYear(y) == (y % 4 = 0 /\ y % 100 # 0) \/ y % 400 = 0

DaysInMonth(y, m) ==
    IF m = 2 THEN (IF IsLeapYear(y) THEN 29 ELSE 28)
    ELSE IF m \in {4, 6, 9, 11} THEN 30 ELSE 31

NoDate == [year |-> 0, month |-> 0, day |-> 0]

\* toml(bytes("date = " + date_str)).date on a string of the asserted
\* shape: a local date, or NoDate where the parser rejects the value
tomlDate(date_str) ==
    IF \E i \in {1, 2, 3, 4, 6, 7, 9, 10} : date_str[i] \notin AsciiDigits
    THEN NoDate
    ELSE LET y == Number(SubSeq(date_str, 1, 4))
             m == Number(SubSeq(date_str, 6, 7))
             d == Number(SubSeq(date_str, 9, 10))
         IN  IF m \in 1..12 /\ d \in 1..DaysInMonth(y, m)
             THEN [year |-> y, month |-> m, day |-> d]
             ELSE NoDate

Pad2(n) == <<DigitOf(n \div 10), DigitOf(n % 10)>>

Pad4(n) == Pad2(n \div 100) \o Pad2(n % 100)

displayMonthFirst(when) ==
    Pad2(when.month) \o <<"/">> \o Pad2(when.day) \o <<"/">> \o Pad4(when.year)

\* when.display("[day]/[month]/[year]")
display(when) == Pad2(when.day) \o <<"/">> \o Pad2(when.month) \o <<"/">> \o Pad4(when.year)

date_with_city(city, when) == city \o <<",", " ">> \o display(when)

-----------------------------------------------------------------------------
(* The template document.typ: the document *)

Underscores(n) == [i \in 1..n |-> "_"]

\* the line to sign on: underscores for an empty text, the text boxed otherwise
field(txt) == IF Len(txt) = 0 THEN Underscores(35) ELSE txt

value_or_blank(value) == IF Len(value) = 0 THEN Underscores(20) ELSE value

lecturesAlwaysMarked(activity, course) ==
    [marked |-> TRUE, course |-> value_or_blank(course)]

\* - [x] / - [ ] lectures, with its description
lectures(activity, course) ==
    IF activity = Lectures
    THEN [marked |-> TRUE, course |-> value_or_blank(course)]
    ELSE [marked |-> FALSE, course |-> value_or_blank(course)]

examsOralMarksBoth(activity) ==
    IF activity = WrittenExam
    THEN [marked |-> TRUE, written |-> TRUE, oral |-> FALSE]
    ELSE IF activity = OralExam
         THEN [marked |-> TRUE, written |-> TRUE, oral |-> TRUE]
         ELSE [marked |-> FALSE, written |-> FALSE, oral |-> FALSE]

\* - [x] / - [ ] exams, with the nested list of written and oral
exams(activity) ==
    IF activity = WrittenExam
    THEN [marked |-> TRUE, written |-> TRUE, oral |-> FALSE]
    ELSE IF activity = OralExam
         THEN [marked |-> TRUE, written |-> FALSE, oral |-> TRUE]
         ELSE [marked |-> FALSE, written |-> FALSE, oral |-> FALSE]

\* - [x] / - [ ] office-hours, with its description
office_hours(activity, professor) ==
    IF activity = OfficeHours
    THEN [marked |-> TRUE, professor |-> value_or_blank(professor)]
    ELSE [marked |-> FALSE, professor |-> value_or_blank(professor)]

failed(message) == [status |-> "error", message |-> message]

\* the template compiled on the posted inputs: the first failure, or the page
compile(inputs) ==
    LET k == firstFailed(inputs)
        last == Len(assertions(inputs))
    IN  IF k # 0 /\ k < last THEN failed(assertions(inputs)[k].message)
        ELSE IF tomlDate(inputs.date) = NoDate THEN failed("toml: invalid date")
        ELSE IF k # 0 THEN failed(assertions(inputs)[k].message)
        ELSE [status |-> "ok",
              heading |-> date_with_city(inputs.city, tomlDate(inputs.date)),
              student_data |-> [name |-> inputs.name, id |-> inputs.id,
                                degree |-> inputs.degree],
              lectures |-> lectures(inputs.activity_type, inputs.course),
              exams |-> exams(inputs.activity_type),
              for_the_course |-> inputs.course,
              office_hours |-> office_hours(inputs.activity_type, inputs.professor),
              signature |-> field(<<>>)]

\* posted records: the four tags of the template, one unknown tag, no tag
PostedActivities == activities \cup {<<"seminar">>, Empty}

\* two dates, a leap day, 29 February of a common year, month 13, a date
\* in Arabic-Indic digits, not a date, no date
PostedDates ==
    {Tomorrow,
     <<"2", "0", "2", "4", "-", "0", "1", "-", "0", "1">>,
     <<"2", "0", "2", "4", "-", "0", "2", "-", "2", "9">>,
     <<"2", "0", "2", "3", "-", "0", "2", "-", "2", "9">>,
     <<"2", "0", "2", "4", "-", "1", "3", "-", "0", "1">>,
     <<"U+0662", "U+0660", "U+0662", "U+0664", "-", "U+0660", "U+0661", "-",
       "U+0660", "U+0662">>,
     <<"x">>,
     Empty}

PostedRecords ==
    [activity_type : PostedActivities, language : {<<"it">>},
     name : {Empty, <<"Elena">>}, id : {<<"1">>}, degree : {<<"CS">>},
     course : {Empty, Blank, <<"Algebra">>}, professor : {Empty, <<"Bianchi">>},
     date : PostedDates, city : {Empty, <<"Trento">>},
     image_path : {DefaultImagePath}]

AssembleInit ==
    /\ variant = "plain"
    /\ values \in PostedRecords
    /\ issues = {}
    /\ isSubmitted = FALSE
    /\ hasSubmittedOnce = FALSE
    /\ isGenerating = FALSE
    /\ isLoading = FALSE
    /\ activityTypes = {}
    /\ languages = {}
    /\ cookies = NoCookies
    /\ requests = <<>>
    /\ document = NoDocument
    /\ failure = NoFailure
    /\ lastEvent = "posted"

\* the service compiles the template on the record it was posted
Compile ==
    /\ lastEvent = "posted"
    /\ document' = compile(values)
    /\ lastEvent' = "compiled"
    /\ UNCHANGED <<variant, values, issues, isSubmitted, hasSubmittedOnce,
                   isGenerating, isLoading, activityTypes, languages, cookies,
                   requests, failure>>

AssembleNext == Compile

AssembleSpec == AssembleInit /\ [][AssembleNext]_vars

-----------------------------------------------------------------------------
(* The schema on its own: createFormSchema(hasSubmitted) applied to a record *)

\* what a field of a raw record can hold
RawText == {Empty, Blank, <<"x">>}

RawOptional == {Empty, Blank, <<" ", "x", " ">>}

RawActivities == {Empty, Blank, Lectures, OralExam, WrittenExam, OfficeHours,
                  OfficeHoursMeeting, <<"seminar">>}

\* empty, blank, not a date, a date
RawDates == {Empty, Blank, <<"x">>, Tomorrow}

RawRecords ==
    [activity_type : RawActivities, language : RawText, name : RawText,
     id : RawText, degree : RawText, course : RawOptional,
     professor : RawOptional, date : RawDates, city : RawText,
     image_path : {DefaultImagePath}]

ValidateInit ==
    /\ variant \in Variants
    /\ values \in RawRecords
    /\ hasSubmittedOnce \in BOOLEAN
    /\ issues = {}
    /\ isSubmitted = FALSE
    /\ isGenerating = FALSE
    /\ isLoading = FALSE
    /\ activityTypes = {}
    /\ languages = {}
    /\ cookies = NoCookies
    /\ requests = <<>>
    /\ document = NoDocument
    /\ failure = NoFailure
    /\ lastEvent = "input"

\* the resolver applied to the record
Validate ==
    /\ lastEvent = "input"
    /\ issues' = createFormSchema(variant, hasSubmittedOnce, values)
    /\ lastEvent' = "validated"
    /\ UNCHANGED <<document, failure>>
    /\ UNCHANGED <<variant, values, isSubmitted, hasSubmittedOnce, isGenerating,
                   isLoading, activityTypes, languages, cookies, requests>>

ValidateNext == Validate

ValidateSpec == ValidateInit /\ [][ValidateNext]_vars

-----------------------------------------------------------------------------
(* The rules as the specification states them *)

RequiredFields == {"activity_type", "language", "name", "id", "degree", "date", "city"}

CourseActivities == {Lectures, OralExam, WrittenExam}

EmptyAfterTrim(s) == Trim(s) = <<>>

\* the unconditional and the activity-conditional rules on a record
SatisfiesRules(r) ==
    /\ \A f \in RequiredFields : ~EmptyAfterTrim(r[f])
    /\ r.activity_type \in CourseActivities => ~EmptyAfterTrim(r.course)
    /\ r.activity_type = OfficeHours => ~EmptyAfterTrim(r.professor)

SubmitEvents == {"submit-invalid", "submit-ignored", "submit-stopped", "submit-sent"}

\* the step is a submit event
SubmitStep == lastEvent' \in SubmitEvents

-----------------------------------------------------------------------------
(* Claims *)

\* C1: the first submit of a record with activity lectures, every
\* unconditional field filled and course empty is judged under the strict
\* rules: it sets hasSubmittedOnce, reports exactly one issue, on course, and
\* sends no build request.
C1_FirstSubmitJudgedStrict ==
    [][(/\ SubmitStep
        /\ ~hasSubmittedOnce
        /\ values.activity_type = Lectures
        /\ \A f \in RequiredFields : ~EmptyAfterTrim(values[f])
        /\ values.course = Empty)
       => (/\ hasSubmittedOnce'
           /\ Paths(issues') = {"course"}
           /\ requests' = requests)]_vars

\* C2: every build request in flight carries a record that satisfies the
\* unconditional rules and the activity-conditional rules.
C2_OnlyValidRecordsSent ==
    \A i \in 1..Len(requests) : SatisfiesRules(requests[i])

\* C3: never more than one build request in flight, and a submit that arrives
\* while one is outstanding sends nothing and changes neither flag.
C3_AtMostOneInFlight ==
    [][/\ Len(requests') <= 1
       /\ (SubmitStep /\ requests # <<>>)
            => (/\ requests' = requests
                /\ lastEvent' = "submit-ignored" \/ lastEvent' = "submit-invalid"
                /\ UNCHANGED <<isGenerating, hasSubmittedOnce, values, cookies>>)]_vars

C3_Witness ==
    /\ lastEvent = "submit-ignored"
    /\ Len(requests) = 1
    /\ isGenerating

\* C4: whenever no build request is outstanding isGenerating is false, after
\* a success as after a failure, and a submit of a record the resolver accepts
\* then starts a new build.
C4_FlagClearedOnCompletion ==
    [][/\ requests' = <<>> => ~isGenerating'
       /\ (SubmitStep /\ requests = <<>> /\ resolver(values) = {})
            => (Len(requests') = 1 /\ isGenerating')]_vars

C4_Witness ==
    /\ lastEvent = "build-failed"
    /\ requests = <<>>
    /\ ~isGenerating
    /\ hasSubmittedOnce
    /\ resolver(values) = {}

\* C5: in lenient and in strict mode, validation reports an issue on each of
\* the seven unconditional fields whose value is empty after trimming.
C5_RequiredAfterTrim ==
    lastEvent = "validated"
        => \A f \in RequiredFields :
              EmptyAfterTrim(values[f]) => f \in Paths(issues)

\* C6: in strict mode validation reports an issue on course if and only if
\* the activity is lectures, oral-exam or written-exam and course is empty
\* after trimming.
C6_CourseRequiredIff ==
    (lastEvent = "validated" /\ hasSubmittedOnce)
        => ("course" \in Paths(issues)
              <=> (values.activity_type \in CourseActivities
                   /\ EmptyAfterTrim(values.course)))

C6_Witness ==
    /\ lastEvent = "validated"
    /\ hasSubmittedOnce
    /\ values.activity_type = WrittenExam
    /\ values.course = Blank
    /\ "course" \in Paths(issues)

\* C7: for activity office-hours and professor empty, validation reports an
\* issue on professor in strict mode and none in lenient mode, in both
\* variants of the form.
C7_ProfessorRequiredForOfficeHours ==
    (lastEvent = "validated" /\ values.activity_type = OfficeHours
       /\ values.professor = Empty)
        => ("professor" \in Paths(issues) <=> hasSubmittedOnce)

\* C8: in lenient mode validation never reports an issue on course or on
\* professor, whatever the activity and whatever the two fields hold.
C8_LenientExemptsConditionalFields ==
    (lastEvent = "validated" /\ ~hasSubmittedOnce)
        => Paths(issues) \cap {"course", "professor"} = {}

C8_Witness ==
    /\ lastEvent = "validated"
    /\ ~hasSubmittedOnce
    /\ values.activity_type = Lectures
    /\ values.course = Blank
    /\ values.professor = Empty
    /\ issues = {}

\* C9: hasSubmittedOnce is false at mount and no step sets it back to false
\* once it is true.
C9_SubmittedOnceMonotonic ==
    [][/\ lastEvent = "mount" => ~hasSubmittedOnce
       /\ hasSubmittedOnce => hasSubmittedOnce']_vars

C9_Witness ==
    /\ hasSubmittedOnce
    /\ lastEvent = "submit-sent"
    /\ isSubmitted

\* C10: after any explicit submit action, including one whose unconditional
\* field checks fail (for example name empty), hasSubmittedOnce is true.
C10_FlagSetByAnySubmit ==
    lastEvent \in SubmitEvents => hasSubmittedOnce

\* C11: in lenient and in strict mode, validation reports an issue on date
\* for every date value that does not have the shape YYYY-MM-DD.
C11_MalformedDateRejected ==
    (lastEvent = "validated" /\ ~MatchesDateShape(values.date))
        => "date" \in Paths(issues)

\* C12: on every record that passes strict validation, each of the
\* template's assertions holds once the record is posted.
C12_ValidatedRecordRenders ==
    (lastEvent = "validated" /\ hasSubmittedOnce /\ issues = {})
        => \A k \in 1..Len(assertions(documentInputs(values))) :
              assertions(documentInputs(values))[k].outcome = "holds"

\* the check-mark of the branch of one activity in a compiled page
BranchMarked(page, activity) ==
    CASE activity = Lectures -> page.lectures.marked
      [] activity = WrittenExam -> page.exams.written
      [] activity = OralExam -> page.exams.oral
      [] activity = OfficeHours -> page.office_hours.marked

Compiled == lastEvent = "compiled" /\ document.status = "ok"

\* C13: the page compiled for a valid activity type has the four branches
\* lectures, written-exam, oral-exam and office-hours, and the branch of the
\* activity type is marked while the other three are not.
C13_ExactlyOneBranchMarked ==
    (Compiled /\ values.activity_type \in activities)
        => \A a \in activities :
              BranchMarked(document, a) <=> a = values.activity_type

C13_Witness ==
    /\ Compiled
    /\ values.activity_type = OralExam
    /\ BranchMarked(document, OralExam)
    /\ ~BranchMarked(document, Lectures)
    /\ ~BranchMarked(document, WrittenExam)
    /\ ~BranchMarked(document, OfficeHours)

\* C14: in every compiled page the exams section has the two sub-items
\* written and oral, not both marked; the exams box is marked exactly for
\* written-exam and oral-exam, and then the marked sub-item is the one of
\* the activity type.
C14_ExamsSection ==
    Compiled =>
        /\ DOMAIN document.exams = {"marked", "written", "oral"}
        /\ ~(document.exams.written /\ document.exams.oral)
        /\ document.exams.marked <=> values.activity_type \in {WrittenExam, OralExam}
        /\ document.exams.written <=> values.activity_type = WrittenExam
        /\ document.exams.oral <=> values.activity_type = OralExam

C14_Witness ==
    /\ Compiled
    /\ values.activity_type = WrittenExam
    /\ document.exams = [marked |-> TRUE, written |-> TRUE, oral |-> FALSE]

\* C15: in every compiled page each place that shows the course, and the
\* place that shows the professor, holds one same run of underscores when
\* the field is empty, never the empty string.
C15_EmptyOptionalShownAsBlank ==
    Compiled =>
        \E n \in 1..40 :
            /\ values.course = Empty =>
                  /\ document.lectures.course = Underscores(n)
                  /\ document.for_the_course = Underscores(n)
            /\ values.professor = Empty =>
                  document.office_hours.professor = Underscores(n)

\* C16: validation reports every violated field at once, one issue per
\* field under the field's name: each empty unconditional field, and in
\* strict mode the empty course of a course activity and the empty
\* professor of office hours as well.
C16_AllViolationsReported ==
    lastEvent = "validated" =>
        /\ \A f \in RequiredFields : values[f] = Empty => f \in Paths(issues)
        /\ hasSubmittedOnce =>
              /\ (values.activity_type \in CourseActivities /\ values.course = Empty)
                    => "course" \in Paths(issues)
              /\ (values.activity_type = OfficeHours /\ values.professor = Empty)
                    => "professor" \in Paths(issues)
        /\ Cardinality(issues) = Cardinality(Paths(issues))

\* C17: with no activity type selected and every other unconditional field
\* filled, validation yields exactly one issue, the one that asks for an
\* activity type, in lenient and in strict mode; none on course or professor.
C17_UnselectedActivityOneError ==
    (/\ lastEvent = "validated"
     /\ values.activity_type = Empty
     /\ \A f \in RequiredFields \ {"activity_type"} : values[f] # Empty)
        => issues = {Issue("activity_type", "Please select an activity type.")}

C17_Witness ==
    /\ lastEvent = "validated"
    /\ hasSubmittedOnce
    /\ values.activity_type = Empty
    /\ values.course = Empty
    /\ values.professor = Empty
    /\ \A f \in RequiredFields \ {"activity_type"} : values[f] # Empty
    /\ Paths(issues) = {"activity_type"}

\* C18: once hasSubmittedOnce is true, every edit of a field runs the strict
\* rule set on the new values, and neither an edit nor a submit changes
\* hasSubmittedOnce again.
C18_EditsRevalidateStrictly ==
    [][/\ (hasSubmittedOnce /\ lastEvent' = "edit")
            => issues' = createFormSchema(variant, TRUE, values')
       /\ (hasSubmittedOnce /\ (lastEvent' = "edit" \/ SubmitStep))
            => hasSubmittedOnce']_vars

\* C19: when a build fails, what onSubmit catches carries the service's
\* error code and message as the service sent them, and the failure is put
\* on screen.
C19_FailureSurfacedUnmodified ==
    lastEvent = "build-failed" =>
        /\ failure.response.body # NoBody =>
              /\ failure.caught.error = failure.response.body.error
              /\ failure.caught.message = failure.response.body.message
        /\ failure.shown # Undefined

\* C20: a failed catalog fetch ends the loading state and leaves the
\* catalogs empty, and the form it leaves takes edits and submits.
C20_FailedLoadNotFatal ==
    /\ lastEvent = "load-failed" =>
          /\ ~isLoading
          /\ activityTypes = {}
          /\ languages = {}
    /\ (~isLoading /\ activityTypes = {}) => (ENABLED Edit /\ ENABLED Submit)

C20_Witness ==
    /\ ~isLoading
    /\ activityTypes = {}
    /\ languages = {}
    /\ values.name # Empty
    /\ lastEvent = "submit-invalid"
    /\ "activity_type" \in Paths(issues)

\* C21: the first render has the defaults, with activity_type, course,
\* professor and the five saved fields empty.  When loadData settles,
\* activity_type, course and professor are empty whatever the store holds;
\* a successful load of the cookie variant with something saved puts what
\* the store saved into the five saved fields, and any other load leaves the
\* values as they were.  A store with nothing saved reads as five empty
\* strings.
C21_OnlySavedFieldsPrepopulated ==
    [][/\ lastEvent = "mount" =>
             \A k \in SavedKeys \cup {"activity_type", "course", "professor"} :
                values[k] = Empty
       /\ (\A k \in SavedKeys : cookies[k] = <<>>) =>
             \A k \in SavedKeys : loadSavedUserData(cookies)[k] = Empty
       /\ lastEvent' \in {"load-ok", "load-failed"} =>
             /\ values'.activity_type = Empty
             /\ values'.course = Empty
             /\ values'.professor = Empty
             /\ IF /\ lastEvent' = "load-ok"
                   /\ variant = "cookie"
                   /\ \E k \in SavedKeys : cookies[k] # <<>>
                THEN \A k \in SavedKeys : values'[k] = decodeURIComponent(cookies[k])
                ELSE values' = values]_vars

C21_Witness ==
    /\ lastEvent = "load-ok"
    /\ variant = "cookie"
    /\ cookies.course = <<"Algebra">>
    /\ cookies.activity_type = Lectures
    /\ values.name = <<"Elena">>
    /\ values.language = <<"it">>
    /\ values.course = Empty
    /\ values.activity_type = Empty

\* C22: the header line of a compiled page is the city, a comma and a
\* space, then the day, the month and the year of the posted date, two, two
\* and four digits, separated by "/".
C22_HeaderLine ==
    Compiled =>
        document.heading =
            values.city \o <<",", " ">>
            \o SubSeq(values.date, 9, 10) \o <<"/">>
            \o SubSeq(values.date, 6, 7) \o <<"/">>
            \o SubSeq(values.date, 1, 4)

\* "2024-01-01" with city Trento reads "Trento, 01/01/2024"
C22_Witness ==
    /\ Compiled
    /\ values.city = <<"Trento">>
    /\ values.date = <<"2", "0", "2", "4", "-", "0", "1", "-", "0", "1">>
    /\ document.heading =
          <<"Trento", ",", " ", "0", "1", "/", "0", "1", "/", "2", "0", "2", "4">>

\* C23: with hasSubmittedOnce already true, a submit that directly follows
\* a submit on the same values yields the same issues as the one before
\* and leaves hasSubmittedOnce and the values as they are.
C23_StrictValidationIdempotent ==
    [][(/\ SubmitStep
        /\ hasSubmittedOnce
        /\ lastEvent \in {"submit-invalid", "submit-ignored"})
          => /\ issues' = issues
             /\ issues' = createFormSchema(variant, TRUE, values) \/ issues' = {}
             /\ hasSubmittedOnce'
             /\ values' = values]_vars

\* a strict submit has reported the missing course, and a further submit is
\* possible that changes nothing
C23_Witness ==
    /\ lastEvent = "submit-invalid"
    /\ hasSubmittedOnce
    /\ Paths(issues) = {"course"}
    /\ ENABLED (Submit /\ UNCHANGED vars)

\* C24: an edit of the activity type leaves the stored course and
\* professor as they are, and a submit that sends a request puts the stored
\* course and professor into it, whether or not their inputs are shown.
C24_HiddenValuesKeptAndSent ==
    [][/\ (lastEvent' = "edit" /\ values'.activity_type # values.activity_type)
            => /\ values'.course = values.course
               /\ values'.professor = values.professor
       /\ lastEvent' = "submit-sent"
            => /\ requests'[Len(requests')].course = values.course
               /\ requests'[Len(requests')].professor = values.professor]_vars

\* a course typed under lectures is in flight with an office-hours request
C24_Witness ==
    /\ lastEvent = "submit-sent"
    /\ variant = "plain"
    /\ Len(requests) = 1
    /\ requests[1].activity_type = OfficeHours
    /\ requests[1].course = <<"Algebra">>
    /\ requests[1].professor = <<"Bianchi">>

\* C25: every build request has the ten fields of the record, course and
\* professor among them as strings, and a non-empty image_path, so the
\* template's assertion on the image path holds on it.
C25_RequestsCarryImagePath ==
    \A i \in 1..Len(requests) :
        /\ DOMAIN requests[i] = Fields
        /\ requests[i].course \in Seq(STRING)
        /\ requests[i].professor \in Seq(STRING)
        /\ requests[i].image_path # Empty
        /\ "Image path must be provided." \notin failedAssertions(requests[i])

\* a request in flight with course and professor unset
C25_Witness ==
    /\ Len(requests) = 1
    /\ requests[1].course = Empty
    /\ requests[1].professor = Empty
    /\ requests[1].image_path = <<"imgs/unitn.jpg">>

\* C26: when either catalog fetch has failed, the settling of loadData
\* leaves both lists empty and the values as they were, also where the
\* store of the cookie variant holds saved answers, and isLoading is false.
C26_LoadAllOrNothing ==
    [][lastEvent' = "load-failed" =>
          /\ activityTypes' = {}
          /\ languages' = {}
          /\ values' = values
          /\ ~isLoading']_vars

C26_Witness ==
    /\ lastEvent = "load-failed"
    /\ variant = "cookie"
    /\ loadSavedUserData(cookies).name = <<"Elena">>
    /\ values.name = Empty
    /\ activityTypes = {}
    /\ languages = {}
    /\ ~isLoading

====
